---- MODULE Spec2Model ----
(***************************************************************************)
(* rlctbg: the header-to-binding generator wrap_header and its builders    *)
(* EnumData, StructData and FunctionData (src/rlctbg/__init__.py).         *)
(*                                                                         *)
(* Text is modelled as follows.  An identifier captured by a (\w+) group   *)
(* is the sequence of its characters (one-character strings), so that      *)
(* split('_', 1), prefix[0], isdigit(), isupper() and lower() are computed *)
(* on characters as the code computes them.  Type tokens, comment texts    *)
(* and #define values are opaque tokens (TLA+ strings).  A formatted       *)
(* output line is the tuple of a tag naming its f-string and the values    *)
(* interpolated into it.  A header line is a record giving its shape (the  *)
(* concrete text of each shape is listed at Matches) and its captures.     *)
(***************************************************************************)
EXTENDS Integers, Sequences, FiniteSets, TLC

\* Bounds of the model: header lengths and the largest directive count.
MaxRuleLines == 5
MaxCountLines == 5
MaxBuildLines == 6
MaxLines == 6
MaxEnumLines == 6
MaxDeclLines == 3
MaxTwiceLines == 5
MaxPtrLevel == 2
MaxArrayLen == 2
MaxNameLen == 3
MaxMemberLines == 5
MaxFieldLines == 5
MaxCount == 2

---------------------------------------------------------------------------
\* The matchers (Regex objects, compared by identity in the dispatch chain).
RULE_DEFINE == "DEFINE"
RULE_COLOR_DEFINES == "COLOR_DEFINES"
RULE_STRUCT_EMPTY == "STRUCT_EMPTY"
RULE_STRUCT_MEMBER == "STRUCT_MEMBER"
RULE_STRUCT_BEGIN == "STRUCT_BEGIN"
RULE_STRUCT_END == "STRUCT_END"
RULE_TYPE_ALIAS_DEFINE == "TYPE_ALIAS_DEFINE"
RULE_TYPE_ALIAS_TYPEDEF == "TYPE_ALIAS_TYPEDEF"
RULE_ENUM_BEGIN == "ENUM_BEGIN"
RULE_ENUM_MEMBER == "ENUM_MEMBER"
RULE_ENUM_MEMBER_VALUE == "ENUM_MEMBER_VALUE"
RULE_ENUM_END == "ENUM_END"
RULE_NAME_ALIAS == "NAME_ALIAS"
RULE_CALLBACK_NOTATION == "CALLBACK_NOTATION"
RULE_FUNCTION == "FUNCTION"

C_TYPES ==
    {"void", "bool", "char", "byte", "short", "int", "long", "longlong",
     "float", "double", "longdouble"}

\* The preamble text, one opaque element.
LOADER_SRC == << <<"loader">> >>

---------------------------------------------------------------------------
\* Characters.
Upper ==
    <<"A", "B", "C", "D", "E", "F", "G", "H", "I", "J", "K", "L", "M",
      "N", "O", "P", "Q", "R", "S", "T", "U", "V", "W", "X", "Y", "Z">>
Lower ==
    <<"a", "b", "c", "d", "e", "f", "g", "h", "i", "j", "k", "l", "m",
      "n", "o", "p", "q", "r", "s", "t", "u", "v", "w", "x", "y", "z">>
UpperChars == {Upper[i] : i \in 1..Len(Upper)}
DigitChars == {"0", "1", "2", "3", "4", "5", "6", "7", "8", "9"}

isupper(ch) == ch \in UpperChars
isdigit(ch) == ch \in DigitChars

\* str.lower() on one character.
lower(ch) ==
    IF ch \in UpperChars
    THEN Lower[CHOOSE i \in 1..Len(Upper) : Upper[i] = ch]
    ELSE ch

\* Index of the first "_" of s, 0 when there is none.
RECURSIVE FindUnderscore(_, _)
FindUnderscore(s, i) ==
    IF i > Len(s) THEN 0
    ELSE IF s[i] = "_" THEN i ELSE FindUnderscore(s, i + 1)

RECURSIVE snake_from(_, _, _)
snake_from(camel_case, i, last) ==
    IF i > Len(camel_case) THEN <<>>
    ELSE LET ch == camel_case[i] IN
         IF isupper(ch)
         THEN (IF last THEN <<>> ELSE <<"_">>) \o <<lower(ch)>>
                  \o snake_from(camel_case, i + 1, TRUE)
         ELSE <<lower(ch)>> \o snake_from(camel_case, i + 1, FALSE)

\* to_snake_case with last starting as False.
to_snake_case_LastFalse(camel_case) == snake_from(camel_case, 1, FALSE)

to_snake_case(camel_case) == snake_from(camel_case, 1, TRUE)

---------------------------------------------------------------------------
\* typename.  The returned string is kept as the term the code builds:
\*   [k: "prim", c, u, base, p]   the text  [c_][u]<base>[_p]
\*   [k: "array", of, n]          the text  <of> * <n>
\*   [k: "POINTER", of]           the text  POINTER(<of>)
\*   [k: "None"]                  the text  None
\* dtype is the type token without the blanks strip(' ') removes; the tokens
\* of the headers below that are not in C_TYPES do not start with c_.
NoneType == [k |-> "None"]
Prim(c, u, base, p) == [k |-> "prim", c |-> c, u |-> u, base |-> base, p |-> p]

\* while lv > 0: dtype = f"POINTER({dtype})"
RECURSIVE Pointers(_, _)
Pointers(dtype, lv) ==
    IF lv > 0 THEN Pointers([k |-> "POINTER", of |-> dtype], lv - 1) ELSE dtype

\* typename without the lv -= 1 of the char and void pointers.
typename_NoDecrement(unsigned, dtype, ptr_level, array_len) ==
    LET inC  == dtype \in C_TYPES
        d1   == IF inC /\ unsigned /\ dtype = "char" THEN "byte" ELSE dtype
        u    == inC /\ unsigned
        p    == inC /\ ~u /\ d1 \in {"char", "void"} /\ ptr_level > 0
        t0   == IF inC THEN Prim(TRUE, u, d1, p)
                ELSE IF dtype = "va_list" THEN Prim(TRUE, FALSE, "void", TRUE)
                ELSE Prim(FALSE, FALSE, dtype, FALSE)
        t1   == IF array_len > 0 THEN [k |-> "array", of |-> t0, n |-> array_len] ELSE t0
        t2   == Pointers(t1, ptr_level)
    IN  IF t2 = Prim(TRUE, FALSE, "void", FALSE) THEN NoneType ELSE t2

typename(unsigned, dtype, ptr_level, array_len) ==
    LET inC  == dtype \in C_TYPES
        d1   == IF inC /\ unsigned /\ dtype = "char" THEN "byte" ELSE dtype
        u    == inC /\ unsigned
        \* 'u' + dtype is never 'char' or 'void'
        p    == inC /\ ~u /\ d1 \in {"char", "void"} /\ ptr_level > 0
        lv   == IF p THEN ptr_level - 1 ELSE ptr_level
        t0   == IF inC THEN Prim(TRUE, u, d1, p)
                ELSE IF dtype = "va_list" THEN Prim(TRUE, FALSE, "void", TRUE)
                ELSE Prim(FALSE, FALSE, dtype, FALSE)
        t1   == IF array_len > 0 THEN [k |-> "array", of |-> t0, n |-> array_len] ELSE t0
        t2   == Pointers(t1, lv)
    IN  IF t2 = Prim(TRUE, FALSE, "void", FALSE) THEN NoneType ELSE t2

\* C_TO_PY_TYPES applied to a typename result when it is one of its keys.
C_TO_PY(t) ==
    IF t.k = "prim" /\ t.c
    THEN CASE t.base = "void" /\ t.p /\ ~t.u -> "int"
           [] t.base = "bool" /\ ~t.u -> "bool"
           [] t.base = "char" /\ ~t.u -> "bytes"
           [] t.base \in {"byte", "short", "int", "long", "longlong"} /\ ~t.p -> "int"
           [] t.base \in {"float", "double", "longdouble"} /\ ~t.u /\ ~t.p -> "float"
           [] OTHER -> "same"
    ELSE "same"

---------------------------------------------------------------------------
\* Optional['EnumData'] / Optional['StructData']: <<>> is None, <<obj>> an object.
None == <<>>
Append2(s, a, b) == Append(Append(s, a), b)

\* EnumData.__init__
EnumData_init(doc) ==
    [doc |-> doc, name |-> <<>>, members |-> <<>>, prefix |-> <<>>, correct |-> FALSE]

\* self.members[mname] = value on an insertion-ordered dict: an existing key
\* keeps its position and takes the new value, a new key goes last.
DictSet(members, k, v) ==
    IF \E i \in 1..Len(members) : members[i].n = k
    THEN [i \in 1..Len(members) |->
            IF members[i].n = k THEN [n |-> k, v |-> v] ELSE members[i]]
    ELSE Append(members, [n |-> k, v |-> v])

\* EnumData.add_member: [obj, err]
add_member(self, name, value) ==
    LET us     == FindUnderscore(name, 1)
        prefix == SubSeq(name, 1, us - 1)
        mname  == SubSeq(name, us + 1, Len(name))
    IN  IF us = 0 THEN [obj |-> self, err |-> "ValueError"]
        ELSE IF mname = <<>> THEN [obj |-> self, err |-> "IndexError"]
        ELSE [obj |-> [self EXCEPT
                         !.correct = self.correct \/ isdigit(mname[1]),
                         !.prefix  = IF self.prefix = <<>> THEN prefix ELSE self.prefix,
                         !.members = DictSet(self.members, mname, value)],
              err |-> "none"]

\* The member identifier of the IntEnum class body.
MemberIdent(self, n) == IF self.correct THEN <<self.prefix[1]>> \o n ELSE n

\* EnumData.convert with its two assert statements left out.
EnumData_convert_Unchecked(self, lines, export) ==
    LET export1 == Append(export, <<"export", self.name>>)
        head    == Append2(lines, <<"blank">>, <<"class_enum", self.name>>)
        lines1  == IF self.doc # "" THEN Append(head, <<"doc", self.doc>>) ELSE head
        M       == self.members
        body    == [i \in 1..Len(M) |-> <<"member", MemberIdent(self, M[i].n), M[i].v>>]
        aliases == [i \in 1..Len(M) |->
                      <<"enumalias", self.prefix \o <<"_">> \o M[i].n, self.name,
                        MemberIdent(self, M[i].n)>>]
        exps    == [i \in 1..Len(M) |-> <<"export", self.prefix \o <<"_">> \o M[i].n>>]
    IN  [lines  |-> Append(Append(lines1 \o body, <<"newline">>) \o aliases, <<"blank">>),
         export |-> export1 \o exps,
         err    |-> "none"]

\* EnumData.convert: [lines, export, err]
EnumData_convert(self, lines, export) ==
    IF self.name = <<>> \/ Len(self.members) = 0
    THEN [lines |-> lines, export |-> export, err |-> "AssertionError"]
    ELSE
    LET export1 == Append(export, <<"export", self.name>>)
        head    == Append2(lines, <<"blank">>, <<"class_enum", self.name>>)
        lines1  == IF self.doc # "" THEN Append(head, <<"doc", self.doc>>) ELSE head
        M       == self.members
    IN  IF self.correct /\ self.prefix = <<>>
        THEN \* self.prefix[0] of an empty prefix, at the first member line
             [lines |-> lines1, export |-> export1, err |-> "IndexError"]
        ELSE
        LET body    == [i \in 1..Len(M) |-> <<"member", MemberIdent(self, M[i].n), M[i].v>>]
            aliases == [i \in 1..Len(M) |->
                          <<"enumalias", self.prefix \o <<"_">> \o M[i].n, self.name,
                            MemberIdent(self, M[i].n)>>]
            exps    == [i \in 1..Len(M) |-> <<"export", self.prefix \o <<"_">> \o M[i].n>>]
        IN  [lines  |-> Append(Append(lines1 \o body, <<"newline">>) \o aliases, <<"blank">>),
             export |-> export1 \o exps,
             err    |-> "none"]

\* The value text of a member that has no explicit value.
AUTO == <<"a", "u", "t", "o", "(", ")">>

\* The integer a decimal value text of an emitted enum member denotes.
Digits == <<"0", "1", "2", "3", "4", "5", "6", "7", "8", "9">>
DigitOf(ch) == (CHOOSE i \in 1..Len(Digits) : Digits[i] = ch) - 1
RECURSIVE Decimal(_, _)
Decimal(v, acc) ==
    IF v = <<>> THEN acc ELSE Decimal(Tail(v), 10 * acc + DigitOf(Head(v)))
IntLiteral(v) == Decimal(v, 0)

\* The values the members of an emitted IntEnum class body get when the
\* artifact is loaded (the preamble has: from enum import IntEnum, auto):
\* an explicit literal is itself, auto() is 1 for the first member and the
\* previous member's value plus one after it.  rows are the member lines.
RECURSIVE IntEnumValues(_, _)
IntEnumValues(rows, last) ==
    IF rows = <<>> THEN <<>>
    ELSE LET v == IF Head(rows)[3] = AUTO THEN last + 1
                  ELSE IntLiteral(Head(rows)[3])
         IN  <<v>> \o IntEnumValues(Tail(rows), v)

\* EnumData.begin with its assert statement left out.
EnumData_begin_Replace(current, doc) ==
    [cur |-> <<EnumData_init(doc)>>, err |-> "none"]

\* EnumData.begin: [cur, err]
EnumData_begin(current, doc) ==
    IF current # None
    THEN [cur |-> current, err |-> "AssertionError"]
    ELSE [cur |-> <<EnumData_init(doc)>>, err |-> "none"]

\* EnumData.end: [cur, lines, export, err]
EnumData_end(current, lines, export) ==
    IF current # None
    THEN LET r == EnumData_convert(current[1], lines, export)
         IN  [cur    |-> IF r.err = "none" THEN None ELSE current,
              lines  |-> r.lines, export |-> r.export, err |-> r.err]
    ELSE [cur |-> current, lines |-> lines, export |-> export, err |-> "none"]

---------------------------------------------------------------------------
\* StructData.__init__
StructData_init(doc) == [doc |-> doc, name |-> <<>>, fields |-> <<>>]

\* StructFieldData as add_field fills it; ftype is the text of match[1]
\* given by its parts [unsigned, type, ptr]; array_len 0 stands for None.
NewField(n, ftype, array_len) ==
    [name      |-> n,
     type      |-> ftype.type,
     unsigned  |-> ftype.unsigned,
     ptr_level |-> ftype.ptr,
     array_len |-> IF array_len # 0 THEN array_len ELSE -1]

\* StructData.add_field putting the new fields in front of the list.
add_field_Front(self, names, ftype, array_len) ==
    [self EXCEPT !.fields =
        [i \in 1..Len(names) |-> NewField(names[i], ftype, array_len)] \o self.fields]

\* StructData.add_field; names is name.split(', ') (or [name])
add_field(self, names, ftype, array_len) ==
    [self EXCEPT !.fields =
        self.fields \o [i \in 1..Len(names) |-> NewField(names[i], ftype, array_len)]]

\* StructFieldData.convert
StructFieldData_convert(field) ==
    <<"field", field.name,
      typename(field.unsigned, field.type, field.ptr_level, field.array_len)>>

\* StructData.convert: [lines, export]
StructData_convert(self, lines, exports) ==
    LET head   == Append2(lines, <<"blank">>, <<"class_struct", self.name>>)
        lines1 == IF self.doc # "" THEN Append(head, <<"doc", self.doc>>) ELSE head
        F      == self.fields
        body   == [i \in 1..Len(F) |-> StructFieldData_convert(F[i])]
    IN  [lines  |-> Append2(Append(lines1, <<"fields_open">>) \o body,
                            <<"fields_close">>, <<"blank">>),
         export |-> Append(exports, <<"export", self.name>>)]

\* StructData.begin: [cur, err]
StructData_begin(current, doc) ==
    IF current # None
    THEN [cur |-> current, err |-> "AssertionError"]
    ELSE [cur |-> <<StructData_init(doc)>>, err |-> "none"]

\* StructData.end: [cur, lines, export]
StructData_end(current, lines, export) ==
    IF current # None
    THEN LET r == StructData_convert(current[1], lines, export)
         IN  [cur |-> None, lines |-> r.lines, export |-> r.export]
    ELSE [cur |-> current, lines |-> lines, export |-> export]

---------------------------------------------------------------------------
\* FunctionParamData as FunctionData.add_param fills it.
add_param(params, unsigned, ptype, ptr_level, name, is_varargs) ==
    Append(params,
        IF is_varargs
        THEN [name |-> <<>>, type |-> "", ptr_level |-> 0, unsigned |-> FALSE,
              is_varargs |-> TRUE]
        ELSE [name |-> name, type |-> ptype, ptr_level |-> ptr_level,
              unsigned |-> unsigned, is_varargs |-> FALSE])

\* A typename result with its C_TO_PY_TYPES image ("same": not a key).
PyType(t) == [py |-> C_TO_PY(t), t |-> t]

\* FunctionParamData.convert_to_string
convert_to_string(p) ==
    IF p.is_varargs
    THEN [args |-> TRUE, name |-> <<>>, type |-> PyType(NoneType)]
    ELSE [args |-> FALSE, name |-> to_snake_case(p.name),
          type |-> PyType(typename(p.unsigned, p.type, p.ptr_level, -1))]

RECURSIVE Fixed(_)
Fixed(params) ==
    IF params = <<>> THEN <<>>
    ELSE (IF Head(params).is_varargs THEN <<>> ELSE <<Head(params)>>) \o Fixed(Tail(params))

\* FunctionData.convert: [lines, export]
FunctionData_convert(self, lines, exports) ==
    LET dtype   == typename(self.unsigned, self.rettype, self.ptr_level, -1)
        py_name == to_snake_case(self.name)
        P       == self.params
        F       == Fixed(P)
        params  == [i \in 1..Len(P) |-> convert_to_string(P[i])]
        ptypes  == [i \in 1..Len(F) |->
                      typename(F[i].unsigned, F[i].type, F[i].ptr_level, -1)]
        pnames  == [i \in 1..Len(F) |-> to_snake_case(F[i].name)]
    IN  [lines  |-> lines \o
                    << <<"blank">>,
                       <<"argtypes", self.name, ptypes>>,
                       <<"restype", self.name, dtype>>,
                       <<"def", py_name, params, PyType(dtype)>>,
                       <<"call", self.name, pnames, dtype # NoneType>>,
                       <<"blank">> >>,
         export |-> Append(exports, <<"export", py_name>>)]

---------------------------------------------------------------------------
\* Header lines.  Comment lines (re.match(RULE_COMMENT, line)):
\*   directive   // @<command>[ <num>]       RULE_PROCESS matches too
\*   comment     // <text>
\* Code lines, by shape, with the concrete text each shape stands for:
\*   other          #if defined(X)
\*   define         #define <name> <value>
\*   define_c       #define <name> <value> // c
\*   color          #define <name> CLITERAL(Color){ <rgba> }   // c
\*   enum_open      typedef enum {
\*   member             <name>,
\*   member_val         <name> = <value>,
\*   close          } <name>;
\*   struct_open    typedef struct <name> {
\*   struct_empty   typedef struct <name> <name2>;
\*   field              [unsigned] <type> [*..]<id>[\[N\]], <id>[\[N\]] ...;
\*   typedef_alias  typedef <type> <name>;
\*   callback       typedef <rettype> (*<name>)(<params>);
\*   function       RLAPI [unsigned ]<rettype> [*..]<name>(<params>);

\* What (\d+) takes at the start of a text: its leading decimal digits.
RECURSIVE DigitRun(_)
DigitRun(text) ==
    IF text # <<>> /\ isdigit(Head(text))
    THEN <<Head(text)>> \o DigitRun(Tail(text)) ELSE <<>>

\* rule(line): whether the rule's pattern matches at the start of the line.
Matches(rule, line) ==
    CASE line.shape = "define" ->
            rule \in {RULE_DEFINE, RULE_NAME_ALIAS}
      [] line.shape = "define_c" ->
            rule \in {RULE_DEFINE, RULE_TYPE_ALIAS_DEFINE, RULE_NAME_ALIAS}
      [] line.shape = "color" ->
            rule \in {RULE_DEFINE, RULE_COLOR_DEFINES, RULE_NAME_ALIAS}
      [] line.shape = "enum_open"     -> rule = RULE_ENUM_BEGIN
      [] line.shape = "member"        -> rule = RULE_ENUM_MEMBER
      [] line.shape = "member_val" ->
            \/ rule = RULE_ENUM_MEMBER
            \/ rule = RULE_ENUM_MEMBER_VALUE /\ DigitRun(line.value) # <<>>
      [] line.shape = "close"         -> rule \in {RULE_STRUCT_END, RULE_ENUM_END}
      [] line.shape = "struct_open"   -> rule = RULE_STRUCT_BEGIN
      [] line.shape = "struct_empty"  -> rule = RULE_STRUCT_EMPTY
      [] line.shape = "field" ->
            rule \in {RULE_STRUCT_MEMBER, RULE_ENUM_MEMBER}
      [] line.shape = "typedef_alias" -> rule = RULE_TYPE_ALIAS_TYPEDEF
      [] line.shape = "callback"      -> rule = RULE_CALLBACK_NOTATION
      [] line.shape = "function"      -> rule = RULE_FUNCTION
      [] OTHER -> FALSE

\* RULE_REALNUM_SUFFIX.replace(value): (\d+)[fd] loses its suffix.
REALNUM_SUFFIX_replace(value) ==
    CASE value = "2f" -> "2" [] value = "4d" -> "4" [] OTHER -> value

\* match[2] of RULE_DEFINE and of RULE_NAME_ALIAS on a #define line.
DefineValue(line) == IF line.shape = "color" THEN "CLITERAL(Color)" ELSE line.value
AliasValue(line)  == IF line.shape = "color" THEN "CLITERAL" ELSE line.value

\* match[2] of RULE_ENUM_MEMBER_VALUE: the digits that follow "= ".
MemberValue(line) == DigitRun(line.value)

\* match[1] of RULE_ENUM_MEMBER: the first word of the line.
MemberName(line) ==
    IF line.shape = "field"
    THEN (IF line.unsigned THEN <<"u", "n", "s">> ELSE <<"t", "y">>)
    ELSE line.name

\* list.remove(x): the first equal element goes; absent, ValueError.
RECURSIVE IndexOf(_, _, _)
IndexOf(s, x, i) ==
    IF i > Len(s) THEN 0 ELSE IF s[i] = x THEN i ELSE IndexOf(s, x, i + 1)

\* A removal that also drops what follows the element.
RemoveAt_Truncate(s, i) == SubSeq(s, 1, i - 1)

RemoveAt(s, i) == SubSeq(s, 1, i - 1) \o SubSeq(s, i + 1, Len(s))

\* A remove that leaves the list as it is when the element is absent.
list_remove_Discard(s, x) ==
    LET i == IndexOf(s, x, 1)
    IN  [list |-> IF i = 0 THEN s ELSE RemoveAt(s, i), err |-> "none"]

list_remove(s, x) ==
    LET i == IndexOf(s, x, 1)
    IN  IF i = 0 THEN [list |-> s, err |-> "ValueError"]
        ELSE [list |-> RemoveAt(s, i), err |-> "none"]

\* Successive removes, stopping at the first that raises.
RECURSIVE remove_each(_, _)
remove_each(s, xs) ==
    IF xs = <<>> THEN [list |-> s, err |-> "none"]
    ELSE LET r == list_remove(s, Head(xs))
         IN  IF r.err # "none" THEN r ELSE remove_each(r.list, Tail(xs))

StructRules ==
    <<RULE_STRUCT_BEGIN, RULE_STRUCT_EMPTY, RULE_STRUCT_MEMBER, RULE_STRUCT_END,
      RULE_TYPE_ALIAS_TYPEDEF, RULE_TYPE_ALIAS_DEFINE>>
EnumRules ==
    <<RULE_ENUM_BEGIN, RULE_ENUM_MEMBER, RULE_ENUM_MEMBER_VALUE, RULE_ENUM_END>>

\* The if/elif chain on the directive's command.  st is the record of the
\* locals of wrap_header and the two class attributes.
Raise(st, e) == [st EXCEPT !.err = e]

Activate(st, rules) == [st EXCEPT !.active_rules = @ \o rules]

\* An end directive that leaves active_rules as it is.
Deactivate_Keep(st, rules) == st

Deactivate(st, rules) ==
    LET r == remove_each(st.active_rules, rules)
    IN  [st EXCEPT !.active_rules = r.list, !.err = r.err]

\* A chain that ends in an else branch that raises.
Unrecognised_Raise(st, line) == Raise(st, "ValueError")

\* The chain has no else branch: no other command does anything.
Unrecognised(st, line) == st

DirectiveCommand(st, line) ==
    LET command == line.command IN
    CASE command = "define_begin"   -> Activate(st, <<RULE_DEFINE>>)
      [] command = "define_end" ->
            LET s1 == Deactivate(st, <<RULE_DEFINE>>)
            IN  IF s1.err # "none" THEN s1
                ELSE [s1 EXCEPT !.generated_code = Append(@, <<"blank">>)]
      [] command = "functions_begin" -> Activate(st, <<RULE_FUNCTION>>)
      [] command = "functions_end"   -> Deactivate(st, <<RULE_FUNCTION>>)
      [] command = "struct_begin"    -> Activate(st, StructRules)
      [] command = "struct_end"      -> Deactivate(st, StructRules)
      [] command = "enum_begin"      -> Activate(st, EnumRules)
      [] command = "enum_end"        -> Deactivate(st, EnumRules)
      [] command = "callback_notation" ->
            IF ~line.hasnum THEN Raise(st, "TypeError")
            ELSE Activate([st EXCEPT !.callback_counter = line.num],
                          <<RULE_CALLBACK_NOTATION>>)
      [] command = "color_defines_begin" -> Activate(st, <<RULE_COLOR_DEFINES>>)
      [] command = "color_defines_end"   -> Deactivate(st, <<RULE_COLOR_DEFINES>>)
      [] command = "define_name_alias" ->
            IF ~line.hasnum THEN Raise(st, "TypeError")
            ELSE Activate([st EXCEPT !.define_alias_counter = line.num],
                          <<RULE_NAME_ALIAS>>)
      [] OTHER -> Unrecognised(st, line)

---------------------------------------------------------------------------
\* The handlers of the dispatch chain in the loop over active_rules.

OnNameAlias(st, line) ==
    LET s1 == [st EXCEPT
                 !.generated_code = Append(@, <<"assign", line.name, AliasValue(line)>>),
                 !.exported_names = Append(@, <<"export", line.name>>),
                 !.define_alias_counter = @ - 1]
    IN  IF s1.define_alias_counter <= 0
        THEN LET r == list_remove(s1.active_rules, RULE_NAME_ALIAS)
             IN  IF r.err # "none" THEN Raise(s1, r.err)
                 ELSE [s1 EXCEPT !.active_rules = r.list,
                                 !.generated_code = Append(@, <<"blank">>)]
        ELSE s1

OnTypeAliasTypedef(st, line) ==
    [st EXCEPT !.generated_code = Append(@, <<"typealias", line.name, line.type>>),
               !.exported_names = Append(@, <<"export", line.name>>)]

OnTypeAliasDefine(st, line) ==
    [st EXCEPT !.generated_code = Append(@, <<"typealias", line.name, line.value>>),
               !.exported_names = Append(@, <<"export", line.name>>)]

OnStructEmpty(st, line) ==
    [st EXCEPT !.generated_code = Append(@, <<"class_empty", line.name>>),
               !.exported_names = Append(@, <<"export", line.name>>)]

OnDefine(st, line) ==
    [st EXCEPT
       !.generated_code =
           Append(@, <<"assign", line.name, REALNUM_SUFFIX_replace(DefineValue(line))>>),
       !.exported_names = Append(@, <<"export", line.name>>)]

OnEnumBegin(st, line) ==
    LET r == EnumData_begin(st.enum, st.last_comment)
    IN  [st EXCEPT !.enum = r.cur, !.err = r.err]

\* EnumData.current.add_member(name, value)
OnEnumMember(st, name, value) ==
    IF st.enum = None THEN Raise(st, "AttributeError")
    ELSE LET r == add_member(st.enum[1], name, value)
         IN  [st EXCEPT !.enum = <<r.obj>>, !.err = r.err]

\* The enum close handler guarded as StructData.end is.
OnEnumEnd_Guarded(st, line) ==
    IF st.enum = None THEN st
    ELSE LET named == <<[st.enum[1] EXCEPT !.name = line.name]>>
             r     == EnumData_end(named, st.generated_code, st.exported_names)
         IN  [st EXCEPT !.enum = r.cur, !.generated_code = r.lines,
                        !.exported_names = r.export, !.err = r.err]

OnEnumEnd(st, line) ==
    IF st.enum = None THEN Raise(st, "AttributeError")
    ELSE LET named == <<[st.enum[1] EXCEPT !.name = line.name]>>
             r     == EnumData_end(named, st.generated_code, st.exported_names)
         IN  [st EXCEPT !.enum = r.cur, !.generated_code = r.lines,
                        !.exported_names = r.export, !.err = r.err]

\* match[3].replace("//", '#') on the texts that follow a colour's value.
comment_replace(text) ==
    CASE text = "   // Light Gray" -> "   # Light Gray"
      [] text = "   // c" -> "   # c"
      [] OTHER -> text

\* The colour handler also registering the name in the export table.
OnColorDefines_Exported(st, line) ==
    [st EXCEPT
       !.palette = Append(@, <<"color", line.name, line.rgba,
                               comment_replace(line.comment)>>),
       !.exported_names = Append(@, <<"export", line.name>>)]

OnColorDefines(st, line) ==
    [st EXCEPT !.palette = Append(@, <<"color", line.name, line.rgba,
                                       comment_replace(line.comment)>>)]

OnStructBegin(st, line) ==
    LET r == StructData_begin(st.struct, st.last_comment)
    IN  IF r.err # "none" THEN Raise(st, r.err)
        ELSE [st EXCEPT !.struct = <<[r.cur[1] EXCEPT !.name = line.name]>>]

\* The text of one declared name: <id> or <id>[N].
ArrayChar(n) == CASE n = 1 -> "1" [] n = 2 -> "2" [] n = 3 -> "3" [] OTHER -> "0"
NameText(d) == IF d.arr > 0 THEN d.id \o <<"[", ArrayChar(d.arr), "]">> ELSE d.id

OnStructMember(st, line) ==
    LET D          == line.names
        \* RULE_STRUCT_MEMBER_ARRAY matches at the start of match[3]
        arraymatch == D[1].arr > 0
        names      == IF arraymatch THEN <<D[1].id>>
                      ELSE [i \in 1..Len(D) |-> NameText(D[i])]
        array_len  == IF arraymatch THEN D[1].arr ELSE 0
        ftype      == [unsigned |-> line.unsigned, type |-> line.type, ptr |-> line.ptr]
    IN  IF st.struct = None THEN Raise(st, "AttributeError")
        ELSE [st EXCEPT !.struct = <<add_field(st.struct[1], names, ftype, array_len)>>]

OnStructEnd(st, line) ==
    LET r == StructData_end(st.struct, st.generated_code, st.exported_names)
    IN  [st EXCEPT !.struct = r.cur, !.generated_code = r.lines,
                   !.exported_names = r.export]

\* The parameters RULE_PARAM matches, mapped through typename.
RECURSIVE cb_ptypes(_)
cb_ptypes(params) ==
    IF params = <<>> THEN <<>>
    ELSE LET q == Head(params) IN
         (IF q.kind = "param"
          THEN <<typename(q.unsigned, q.type, q.ptr, -1)>> ELSE <<>>)
         \o cb_ptypes(Tail(params))

OnCallbackNotation(st, line) ==
    LET s1 == [st EXCEPT
                 !.generated_code =
                     @ \o << <<"blank">>,
                             <<"cfunctype", line.name, cb_ptypes(line.params)>>,
                             <<"blank">> >>,
                 !.exported_names = Append(@, <<"export", line.name>>),
                 !.callback_counter = @ - 1]
    IN  IF s1.callback_counter <= 0
        THEN LET r == list_remove(s1.active_rules, RULE_CALLBACK_NOTATION)
             IN  [s1 EXCEPT !.active_rules = r.list, !.err = r.err]
        ELSE s1

RECURSIVE func_params(_, _)
func_params(acc, paramlist) ==
    IF paramlist = <<>> THEN acc
    ELSE LET q == Head(paramlist) IN
         func_params(
            CASE q.kind = "varargs" -> add_param(acc, FALSE, "", 0, <<>>, TRUE)
              [] q.kind = "param" ->
                    add_param(acc, q.unsigned, q.type, q.ptr, q.name, FALSE)
              [] OTHER -> acc,
            Tail(paramlist))

OnFunction(st, line) ==
    LET func == [name |-> line.name, rettype |-> line.rettype,
                 ptr_level |-> line.ptr, unsigned |-> line.unsigned,
                 params |-> IF line.void THEN <<>> ELSE func_params(<<>>, line.params)]
        r    == FunctionData_convert(func, st.funcion_wrappers, st.exported_names)
    IN  [st EXCEPT !.funcion_wrappers = r.lines, !.exported_names = r.export]

Handle(rule, st, line) ==
    CASE rule = RULE_NAME_ALIAS         -> OnNameAlias(st, line)
      [] rule = RULE_TYPE_ALIAS_TYPEDEF -> OnTypeAliasTypedef(st, line)
      [] rule = RULE_TYPE_ALIAS_DEFINE  -> OnTypeAliasDefine(st, line)
      [] rule = RULE_STRUCT_EMPTY       -> OnStructEmpty(st, line)
      [] rule = RULE_DEFINE             -> OnDefine(st, line)
      [] rule = RULE_ENUM_BEGIN         -> OnEnumBegin(st, line)
      [] rule = RULE_ENUM_MEMBER        -> OnEnumMember(st, MemberName(line), AUTO)
      [] rule = RULE_ENUM_MEMBER_VALUE  -> OnEnumMember(st, line.name, MemberValue(line))
      [] rule = RULE_ENUM_END           -> OnEnumEnd(st, line)
      [] rule = RULE_COLOR_DEFINES      -> OnColorDefines(st, line)
      [] rule = RULE_STRUCT_BEGIN       -> OnStructBegin(st, line)
      [] rule = RULE_STRUCT_MEMBER      -> OnStructMember(st, line)
      [] rule = RULE_STRUCT_END         -> OnStructEnd(st, line)
      [] rule = RULE_CALLBACK_NOTATION  -> OnCallbackNotation(st, line)
      [] rule = RULE_FUNCTION           -> OnFunction(st, line)
      [] OTHER -> st

\* One firing, with a record of what it did (the fired log is not program state).
Fire(rule, st, line) ==
    LET s1 == Handle(rule, st, line)
    IN  [s1 EXCEPT !.fired = Append(@,
            [rule |-> rule,
             err  |-> s1.err,
             gen  |-> Len(s1.generated_code) - Len(st.generated_code),
             exp  |-> Len(s1.exported_names) - Len(st.exported_names),
             pal  |-> Len(s1.palette) - Len(st.palette),
             wrap |-> Len(s1.funcion_wrappers) - Len(st.funcion_wrappers)])]

\* for rule in active_rules: the list iterator holds an index into the list
\* and reads the list as it is at each step, so a removal during the loop
\* shifts the elements behind it under the iterator.
RECURSIVE ForRules(_, _, _)
ForRules(st, line, i) ==
    IF st.err # "none" \/ i > Len(st.active_rules) THEN st
    ELSE LET rule == st.active_rules[i]
             s1   == [st EXCEPT !.applied = Append(@, rule)]
             s2   == IF Matches(rule, line) THEN Fire(rule, s1, line) ELSE s1
         IN  ForRules(s2, line, i + 1)

---------------------------------------------------------------------------
VARIABLES
    pc,                     \* "idle", "pass" (in the loop), "done", "aborted"
    lineno,                 \* lines of the header consumed
    active_rules, exported_names, generated_code, funcion_wrappers, palette,
    callback_counter, define_alias_counter, last_comment,
    enum_current,           \* EnumData.current (class attribute)
    struct_current,         \* StructData.current (class attribute)
    output,                 \* contents of the file at path_to_output
    error,                  \* the exception that ended the pass, or "none"
    limit,                  \* number of lines of the header (len(lines))
    \* What the last step did, the directives read so far and the countdowns
    \* each count directive started; not program state.
    line, applied, fired, dirs, counts,
    opened,                 \* builders begun and not yet converted, per kind
    consumed,               \* a builder took last_comment since the last plain comment
    \* A process that calls wrap_header twice on one header: the number of the
    \* call, the lines the first call read and the file it wrote.
    twice, run, header, first_output,
    call                    \* the last application of a pure function, with its result

vars == <<pc, lineno, active_rules, exported_names, generated_code, funcion_wrappers,
          palette, callback_counter, define_alias_counter, last_comment,
          enum_current, struct_current, output, error, limit, line, applied, fired,
          dirs, counts, opened, consumed, twice, run, header, first_output, call>>

NoLine == [kind |-> "none"]

CountRules == {RULE_NAME_ALIAS, RULE_CALLBACK_NOTATION}
NoCounts == [r \in CountRules |-> [seen |-> FALSE, n |-> 0, handled |-> 0, clean |-> FALSE]]

NoCall == [fn |-> "none"]

\* The process before its first call of wrap_header; two_runs: it will call
\* wrap_header a second time on the same header.
InitProcess(header_length, two_runs) ==
    /\ pc = "idle"
    /\ twice = two_runs
    /\ run = 1
    /\ header = <<>>
    /\ first_output = <<>>
    /\ call = NoCall
    /\ limit = header_length
    /\ counts = NoCounts
    /\ opened = [k \in {"enum", "struct"} |-> 0]
    /\ consumed = FALSE
    /\ lineno = 0
    /\ active_rules = <<>>
    /\ exported_names = <<>>
    /\ generated_code = <<>>
    /\ funcion_wrappers = <<>>
    /\ palette = <<>>
    /\ callback_counter = 0
    /\ define_alias_counter = 0
    /\ last_comment = ""
    /\ enum_current = None
    /\ struct_current = None
    /\ output = << <<"previous">> >>
    /\ error = "none"
    /\ line = NoLine
    /\ applied = <<>>
    /\ fired = <<>>
    /\ dirs = <<>>

Init(header_length) == InitProcess(header_length, FALSE)

\* wrap_header up to the loop: the locals are initialised and open(.., 'w')
\* truncates the output file.
Enter ==
    /\ pc' = "pass"
    /\ lineno' = 0
    /\ active_rules' = <<>>
    /\ exported_names' = << <<"export_begin">> >>
    /\ generated_code' = <<>>
    /\ funcion_wrappers' = <<>>
    /\ palette' = <<>>
    /\ callback_counter' = 0
    /\ define_alias_counter' = 0
    /\ last_comment' = ""
    /\ output' = <<>>
    /\ error' = "none"
    /\ line' = NoLine
    /\ applied' = <<>>
    /\ fired' = <<>>
    /\ dirs' = <<>>
    /\ counts' = NoCounts
    /\ opened' = [k \in {"enum", "struct"} |->
                    IF (IF k = "enum" THEN enum_current ELSE struct_current) = None
                    THEN 0 ELSE 1]
    /\ consumed' = FALSE
    /\ UNCHANGED <<enum_current, struct_current, limit, twice, header, call>>

\* The first call of wrap_header.
Start ==
    /\ pc = "idle"
    /\ Enter
    /\ UNCHANGED <<run, first_output>>

\* The second call of wrap_header in the same process, on the same header,
\* after the first call returned: the locals are initialised again, the
\* class attributes EnumData.current and StructData.current are as the first
\* call left them.
Again ==
    /\ pc = "done" /\ twice /\ run = 1
    /\ Enter
    /\ run' = 2
    /\ first_output' = output

\* A second call of wrap_header in the same process after the first call
\* ended with an exception: nothing of the first call is left but the class
\* attributes and the truncated output file.
Retry ==
    /\ pc = "aborted" /\ twice /\ run = 1
    /\ Enter
    /\ run' = 2
    /\ first_output' = output

\* The locals and class attributes as one record, at the top of an iteration.
Locals ==
    [active_rules |-> active_rules, exported_names |-> exported_names,
     generated_code |-> generated_code, funcion_wrappers |-> funcion_wrappers,
     palette |-> palette, callback_counter |-> callback_counter,
     define_alias_counter |-> define_alias_counter, last_comment |-> last_comment,
     enum |-> enum_current, struct |-> struct_current,
     err |-> "none", applied |-> <<>>, fired |-> <<>>]

InSeq(s, x) == \E i \in 1..Len(s) : s[i] = x
CountCommand(r) == IF r = RULE_NAME_ALIAS THEN "define_name_alias" ELSE "callback_notation"

\* The builders the firings of one line began, and those they converted.
Begun(events, k) ==
    Cardinality({i \in 1..Len(events) :
        /\ events[i].rule = (IF k = "enum" THEN RULE_ENUM_BEGIN ELSE RULE_STRUCT_BEGIN)
        /\ events[i].err = "none"})
Ended(events, k) ==
    Cardinality({i \in 1..Len(events) :
        /\ events[i].rule = (IF k = "enum" THEN RULE_ENUM_END ELSE RULE_STRUCT_END)
        /\ events[i].err = "none" /\ events[i].exp > 0})

\* The state after one iteration of the loop over the lines; an exception
\* leaves the with block (closing the file) and ends wrap_header.
Iterated(s, l) ==
    /\ pc' = IF s.err = "none" THEN "pass" ELSE "aborted"
    /\ error' = s.err
    /\ lineno' = lineno + 1
    /\ active_rules' = s.active_rules
    /\ exported_names' = s.exported_names
    /\ generated_code' = s.generated_code
    /\ funcion_wrappers' = s.funcion_wrappers
    /\ palette' = s.palette
    /\ callback_counter' = s.callback_counter
    /\ define_alias_counter' = s.define_alias_counter
    /\ last_comment' = s.last_comment
    /\ enum_current' = s.enum
    /\ struct_current' = s.struct
    /\ line' = l
    /\ applied' = s.applied
    /\ fired' = s.fired
    /\ dirs' = IF l.kind = "directive" THEN Append(dirs, l.command) ELSE dirs
    /\ counts' = [r \in CountRules |->
                    IF l.kind = "directive" /\ l.command = CountCommand(r) /\ l.hasnum
                    THEN [seen |-> TRUE, n |-> l.num, handled |-> 0,
                          clean |-> ~InSeq(active_rules, r)]
                    ELSE IF \E i \in 1..Len(s.fired) : s.fired[i].rule = r
                    THEN [counts[r] EXCEPT !.handled = @ + 1]
                    ELSE counts[r]]
    /\ opened' = [k \in {"enum", "struct"} |->
                    opened[k] + Begun(s.fired, k) - Ended(s.fired, k)]
    /\ consumed' = IF l.kind = "comment" THEN FALSE
                   ELSE consumed \/ Begun(s.fired, "enum") + Begun(s.fired, "struct") > 0
    /\ header' = IF twice /\ run = 1 THEN Append(header, l) ELSE header
    /\ UNCHANGED <<output, limit, twice, run, first_output, call>>

\* The next line of the header is l; the second call reads the lines the
\* first call read.
Reads(l) ==
    /\ pc = "pass" /\ lineno < limit
    /\ run = 2 => lineno < Len(header) /\ l = header[lineno + 1]

\* A comment line that is no directive: last_comment = comment[1].
PlainComment(l) ==
    /\ Reads(l)
    /\ l.kind = "comment"
    /\ Iterated([Locals EXCEPT !.last_comment = l.text], l)

\* A directive line: last_comment = "", then the command.
Directive(l) ==
    /\ Reads(l)
    /\ l.kind = "directive"
    /\ Iterated(DirectiveCommand([Locals EXCEPT !.last_comment = ""], l), l)

\* A line that is no comment: every rule of active_rules is tried on it.
CodeLine(l) ==
    /\ Reads(l)
    /\ l.kind = "code"
    /\ Iterated(ForRules(Locals, l, 1), l)

\* The artifact with the palette ahead of the definitions.
Artifact_PaletteFirst(exported, generated, colors, wrappers) ==
    LOADER_SRC \o exported \o colors \o generated \o wrappers

\* LOADER_SRC + exported_names + generated_code + palette + funcion_wrappers
Artifact(exported, generated, colors, wrappers) ==
    LOADER_SRC \o exported \o generated \o colors \o wrappers

\* The header is exhausted: the export table is closed and the file written.
WriteOutput ==
    /\ pc = "pass"
    /\ run = 2 => lineno = Len(header)
    /\ pc' = "done"
    /\ exported_names' = Append(exported_names, <<"export_end">>)
    /\ output' = Artifact(exported_names', generated_code, palette, funcion_wrappers)
    /\ line' = NoLine
    /\ applied' = <<>>
    /\ fired' = <<>>
    /\ UNCHANGED <<lineno, active_rules, generated_code, funcion_wrappers, palette,
                   callback_counter, define_alias_counter, last_comment,
                   enum_current, struct_current, error, limit, dirs, counts,
                   opened, consumed, twice, run, header, first_output, call>>

ReadLine(l) == PlainComment(l) \/ Directive(l) \/ CodeLine(l)

---------------------------------------------------------------------------
\* Identifiers and lines of the headers checked.
KEY_A == <<"K", "_", "A">>
KEY_B == <<"K", "_", "B">>
NameA == <<"A">>
NameB == <<"B">>
NameV == <<"V">>
NameW == <<"W">>

Dir(command)       == [kind |-> "directive", command |-> command, hasnum |-> FALSE, num |-> 0]
DirN(command, n)   == [kind |-> "directive", command |-> command, hasnum |-> TRUE, num |-> n]
Comment(text)      == [kind |-> "comment", text |-> text]
OtherLine          == [kind |-> "code", shape |-> "other"]
DefineLine(n, v)   == [kind |-> "code", shape |-> "define", name |-> n, value |-> v]
DefineCLine(n, v)  == [kind |-> "code", shape |-> "define_c", name |-> n, value |-> v]
ColorLine(n)       == [kind |-> "code", shape |-> "color", name |-> n,
                       rgba |-> "245, 245, 245, 255", comment |-> "   // c"]
EnumOpenLine       == [kind |-> "code", shape |-> "enum_open"]
MemberLine(n)      == [kind |-> "code", shape |-> "member", name |-> n]
MemberValLine(n, v) == [kind |-> "code", shape |-> "member_val", name |-> n, value |-> v]
CloseLine(n)       == [kind |-> "code", shape |-> "close", name |-> n]
StructOpenLine(n)  == [kind |-> "code", shape |-> "struct_open", name |-> n]
StructEmptyLine(n) == [kind |-> "code", shape |-> "struct_empty", name |-> n]
FieldLine(u, t, p, names) ==
    [kind |-> "code", shape |-> "field", unsigned |-> u, type |-> t, ptr |-> p,
     names |-> names]
TypedefLine(t, n)  == [kind |-> "code", shape |-> "typedef_alias", type |-> t, name |-> n]
Param(u, t, p, n)  == [kind |-> "param", unsigned |-> u, type |-> t, ptr |-> p, name |-> n]
CallbackLine(t, n, params) ==
    [kind |-> "code", shape |-> "callback", rettype |-> t, name |-> n, params |-> params]
FunctionLine(u, t, p, n, void, params) ==
    [kind |-> "code", shape |-> "function", unsigned |-> u, rettype |-> t, ptr |-> p,
     name |-> n, void |-> void, params |-> params]

\* Headers of directives and #define lines: the rule set and the countdowns.
RuleLines ==
    {Dir("define_begin"), Dir("define_end"), Dir("enum_begin"), Dir("enum_end"),
     Dir("bogus"), Comment("doc")}
    \cup {DirN("define_name_alias", n) : n \in 0..MaxCount}
    \cup {DefineLine(NameA, "10"), MemberLine(KEY_A), EnumOpenLine, OtherLine}

NextRules == Start \/ (\E l \in RuleLines : ReadLine(l)) \/ WriteOutput
InitRules == Init(MaxRuleLines)
SpecRules == InitRules /\ [][NextRules]_vars

\* Headers of count directives and the lines their matchers take.
CountLines ==
    {Dir("define_begin"), Dir("define_name_alias"), Comment("doc"), OtherLine,
     DefineLine(NameA, "10"),
     CallbackLine("void", NameB, <<Param(FALSE, "int", 0, <<"a">>)>>)}
    \cup {DirN("define_name_alias", n) : n \in 0..MaxCount}
    \cup {DirN("callback_notation", n) : n \in 0..MaxCount}

NextCount == Start \/ (\E l \in CountLines : ReadLine(l)) \/ WriteOutput
InitCount == Init(MaxCountLines)
SpecCount == InitCount /\ [][NextCount]_vars

\* Headers of enum and struct blocks.
FieldX  == FieldLine(FALSE, "float", 0, <<[id |-> <<"x">>, arr |-> 0]>>)
FieldYZ == FieldLine(FALSE, "int", 0,
                     <<[id |-> <<"y">>, arr |-> 0], [id |-> <<"z">>, arr |-> 0]>>)

FieldM  == FieldLine(FALSE, "float", 0, <<[id |-> <<"m">>, arr |-> 2]>>)

BuildLines ==
    {Dir("enum_begin"), Dir("struct_begin"), Comment("docA"),
     EnumOpenLine, MemberLine(KEY_A), CloseLine(NameV),
     StructOpenLine(NameV), FieldX, FieldYZ, FieldM}

NextBuild == Start \/ (\E l \in BuildLines : ReadLine(l)) \/ WriteOutput
InitBuild == Init(MaxBuildLines)
SpecBuild == InitBuild /\ [][NextBuild]_vars

\* Headers of enum blocks: members with and without values, with a remainder
\* that begins with a digit, and with an empty prefix.
KEY_1 == <<"K", "_", "1">>
US_1  == <<"_", "1">>

EnumLines ==
    {Dir("enum_begin"), Comment("docA"), EnumOpenLine, CloseLine(NameV),
     MemberLine(KEY_A), MemberLine(KEY_B), MemberLine(KEY_1), MemberLine(US_1),
     MemberValLine(KEY_B, <<"5">>)}

NextEnum == Start \/ (\E l \in EnumLines : ReadLine(l)) \/ WriteOutput
InitEnum == Init(MaxEnumLines)
SpecEnum == InitEnum /\ [][NextEnum]_vars

\* Headers of one enum whose members have two prefixes, share remainders and
\* have explicit values in decimal, hexadecimal and negative notation.
X_A == <<"X", "_", "A">>
X_B == <<"X", "_", "B">>

MemberLines ==
    {Dir("enum_begin"), Comment("docA"), EnumOpenLine, CloseLine(NameV),
     MemberLine(KEY_A), MemberLine(X_A),
     MemberValLine(KEY_B, <<"5">>), MemberValLine(X_B, <<"0", "x", "4">>),
     MemberValLine(X_A, <<"-", "1">>)}

NextMembers == Start \/ (\E l \in MemberLines : ReadLine(l)) \/ WriteOutput
InitMembers == Init(MaxMemberLines)
SpecMembers == InitMembers /\ [][NextMembers]_vars

\* Headers of one struct whose member lines declare one or two names, with
\* and without an array suffix on the first and on the second name.
FieldAB2 == FieldLine(FALSE, "float", 0,
                      <<[id |-> <<"a">>, arr |-> 0], [id |-> <<"b">>, arr |-> 2]>>)
FieldA2B == FieldLine(TRUE, "char", 1,
                      <<[id |-> <<"a">>, arr |-> 2], [id |-> <<"b">>, arr |-> 0]>>)

FieldLines ==
    {Dir("struct_begin"), Comment("docA"), StructOpenLine(NameV), CloseLine(NameV),
     FieldX, FieldYZ, FieldM, FieldAB2, FieldA2B}

NextFields == Start \/ (\E l \in FieldLines : ReadLine(l)) \/ WriteOutput
InitFields == Init(MaxFieldLines)
SpecFields == InitFields /\ [][NextFields]_vars

\* Headers of function declarations and callback typedefs.  The elements of
\* a parameter list are the pieces of split(', '): a piece RULE_PARAM matches
\* (int w, const char *t), a piece it does not match (int, with no name), ...
ParamW    == Param(FALSE, "int", 0, <<"w">>)
ParamT    == Param(FALSE, "char", 1, <<"t">>)
Unmatched == [kind |-> "unmatched"]
VarArgs   == [kind |-> "varargs"]
FixedParams == {ParamW, ParamT, Unmatched}

ParamLists ==
    {<<a>> : a \in FixedParams}
    \cup {<<a, b>> : a \in FixedParams, b \in FixedParams}
    \cup {<<a, VarArgs>> : a \in FixedParams}
    \cup {<<a, b, VarArgs>> : a \in FixedParams, b \in FixedParams}

NameRun == <<"R", "u", "n">>

DeclLines ==
    {Dir("functions_begin"), DirN("callback_notation", MaxCount), Comment("doc"),
     FunctionLine(FALSE, "void", 0, NameRun, TRUE, <<>>)}
    \cup {FunctionLine(FALSE, "int", 0, NameRun, FALSE, ps) : ps \in ParamLists}
    \cup {CallbackLine(t, NameB, ps) :
              t \in {"void", "int"},
              ps \in {<<Unmatched>>, <<ParamW>>, <<ParamW, ParamT>>}}

NextDecl == Start \/ (\E l \in DeclLines : ReadLine(l)) \/ WriteOutput
InitDecl == Init(MaxDeclLines)
SpecDecl == InitDecl /\ [][NextDecl]_vars

\* Headers a process hands to wrap_header twice.
TwiceLines ==
    {Dir("enum_begin"), Dir("enum_end"), Dir("struct_begin"), Comment("docA"),
     EnumOpenLine, MemberLine(KEY_A), CloseLine(NameV), StructOpenLine(NameV),
     FieldX}

NextTwice == Start \/ (\E l \in TwiceLines : ReadLine(l)) \/ WriteOutput \/ Again
InitTwice == InitProcess(MaxTwiceLines, TRUE)
SpecTwice == InitTwice /\ [][NextTwice]_vars

\* A process that calls wrap_header again after the first call returned or
\* raised.
NextRuns == NextTwice \/ Retry
SpecRuns == InitTwice /\ [][NextRuns]_vars

\* Everything but call: the state of the process.
process_vars ==
    <<pc, lineno, active_rules, exported_names, generated_code, funcion_wrappers,
      palette, callback_counter, define_alias_counter, last_comment,
      enum_current, struct_current, output, error, limit, line, applied, fired,
      dirs, counts, opened, consumed, twice, run, header, first_output>>

\* typename applied to every unsigned flag, type token, pointer depth and
\* array length in bounds (-1 is the array length of a non-array).
TypeTokens == C_TYPES \cup {"va_list", "Vector2"}

ApplyTypename ==
    /\ pc = "idle"
    /\ \E unsigned \in BOOLEAN, dtype \in TypeTokens,
          ptr_level \in 0..MaxPtrLevel, array_len \in (-1)..MaxArrayLen :
           call' = [fn |-> "typename", unsigned |-> unsigned, dtype |-> dtype,
                    ptr_level |-> ptr_level, array_len |-> array_len,
                    result |-> typename(unsigned, dtype, ptr_level, array_len)]
    /\ UNCHANGED process_vars

InitTypes == InitProcess(MaxPtrLevel, FALSE)
SpecTypes == InitTypes /\ [][ApplyTypename]_vars

\* to_snake_case applied to the names of the spec and to every string of at
\* most MaxNameLen characters over upper case, lower case, digit, underscore.
NameChars == {"A", "B", "a", "1", "_"}
DrawRectangleRec == <<"D", "r", "a", "w", "R", "e", "c", "t", "a", "n", "g", "l", "e", "R", "e", "c">>
IsKeyDown == <<"I", "s", "K", "e", "y", "D", "o", "w", "n">>
RAYWHITE == <<"R", "A", "Y", "W", "H", "I", "T", "E">>
Names ==
    UNION {[1..n -> NameChars] : n \in 0..MaxNameLen}
    \cup {DrawRectangleRec, IsKeyDown, RAYWHITE}

ApplySnakeCase ==
    /\ pc = "idle"
    /\ \E camel_case \in Names :
           call' = [fn |-> "to_snake_case", camel_case |-> camel_case,
                    result |-> to_snake_case(camel_case)]
    /\ UNCHANGED process_vars

InitNames == InitProcess(MaxNameLen, FALSE)
SpecNames == InitNames /\ [][ApplySnakeCase]_vars

\* Headers of #define, colour and function lines: the sections of the artifact.
FuncV == FunctionLine(FALSE, "void", 0, <<"R", "u", "n">>, FALSE,
                      <<Param(FALSE, "int", 0, <<"w">>)>>)

Lines ==
    {Dir("define_begin"), Dir("color_defines_begin"), Dir("functions_begin"),
     Comment("doc"), DefineLine(NameA, "2f"), DefineLine(NameB, "10"),
     ColorLine(NameW), FuncV}

Next == Start \/ (\E l \in Lines : ReadLine(l)) \/ WriteOutput
InitLines == Init(MaxLines)
Spec == InitLines /\ [][Next]_vars

---------------------------------------------------------------------------
\* Properties.

Occurrences(seq, x) == Cardinality({i \in 1..Len(seq) : seq[i] = x})
RulesOf(events) == [i \in 1..Len(events) |-> events[i].rule]

\* The directive that activates a matcher, and the one that deactivates it.
BeginOf(rule) ==
    CASE rule = RULE_DEFINE -> "define_begin"
      [] rule = RULE_FUNCTION -> "functions_begin"
      [] InSeq(StructRules, rule) -> "struct_begin"
      [] InSeq(EnumRules, rule) -> "enum_begin"
      [] rule = RULE_COLOR_DEFINES -> "color_defines_begin"
      [] OTHER -> CountCommand(rule)
EndOf(rule) ==
    CASE rule = RULE_DEFINE -> "define_end"
      [] rule = RULE_FUNCTION -> "functions_end"
      [] InSeq(StructRules, rule) -> "struct_end"
      [] InSeq(EnumRules, rule) -> "enum_end"
      [] rule = RULE_COLOR_DEFINES -> "color_defines_end"
      [] OTHER -> "no end directive"

\* The last directive read so far, among the two of the rule's context, is its begin.
LastIsBegin(rule) ==
    \E i \in 1..Len(dirs) :
        /\ dirs[i] = BeginOf(rule)
        /\ \A j \in (i + 1)..Len(dirs) : dirs[j] # EndOf(rule)

\* A step that took one code line through the loop over active_rules.
CodeStep == pc = "pass" /\ lineno' = lineno + 1 /\ line'.kind = "code"

\* C1 as stated: a matcher is applied to a code line only after a begin (or
\* count) directive of its context and before the next end directive of that
\* context; after an end directive it is applied to no line until a new begin.
C1_Original ==
    \A i \in 1..Len(applied) : LastIsBegin(applied[i])

\* C1 amended: a matcher is applied to a code line only while more begin
\* directives than end directives of its context have been read (a count
\* directive counts as a begin); an end directive closes one begin, so after
\* begin, begin, end the context's matchers are still applied.
C1_Balanced ==
    \A i \in 1..Len(applied) :
        Occurrences(dirs, BeginOf(applied[i])) > Occurrences(dirs, EndOf(applied[i]))

\* A matcher applied to a code line after an end directive of its context.
C1_Witness ==
    \E i \in 1..Len(applied) :
        /\ Occurrences(dirs, EndOf(applied[i])) > 0
        /\ ~LastIsBegin(applied[i])

\* The rules of rules whose pattern matches the line, in list order.
Matching(rules, l) == SelectSeq(rules, LAMBDA r : Matches(r, l))

\* C2: on every code line the pass survives, the matchers that fire are
\* exactly the matchers of the Active Rule Set, as it is when the line is
\* reached, whose pattern matches the line, in registration order; also on the
\* line where a count-bounded matcher removes itself.
C2_AllMatchingFire ==
    [][CodeStep /\ pc' = "pass" => RulesOf(fired') = Matching(active_rules, line')]_vars

Handled(events, r) == \E i \in 1..Len(events) : events[i].rule = r

\* C3: after a count directive giving N the matcher handles exactly N
\* matching lines, for every N the directive gives (never more than N), and
\* once it has handled the N-th it is out of the Active Rule Set.
C3_Original ==
    \A r \in CountRules :
        counts[r].seen =>
            /\ counts[r].handled <= counts[r].n
            /\ counts[r].handled = counts[r].n /\ Handled(fired, r)
                   => ~InSeq(active_rules, r)

\* The number of lines a countdown started at N lets through.
Quota(r) == IF counts[r].n > 1 THEN counts[r].n ELSE 1

\* What the countdown does: after a count directive giving N, read while its
\* matcher is not in the Active Rule Set, the matcher handles max(N, 1)
\* matching lines (the counter is tested after the decrement, so a count of 0
\* still lets one line through): until then it is in the Active Rule Set and
\* handles every matching line, with one export entry each; from then on it
\* is out of the Active Rule Set, with no end directive, and later matching
\* lines give no output and no export entry from it.
C3_CountInv ==
    \A r \in CountRules :
        counts[r].seen /\ counts[r].clean =>
            /\ counts[r].handled <= Quota(r)
            /\ InSeq(active_rules, r) <=> counts[r].handled < Quota(r)

C3_CountStep ==
    \A r \in CountRules :
        CodeStep /\ pc' = "pass" /\ counts[r].seen /\ counts[r].clean =>
            /\ InSeq(active_rules, r) /\ Matches(r, line') =>
                   \E i \in 1..Len(fired') :
                       /\ fired'[i].rule = r
                       /\ fired'[i].exp = 1 /\ fired'[i].gen >= 1
            /\ ~InSeq(active_rules, r) => ~Handled(fired', r)

\* The countdown of C3 for the counts it holds for (safety and step parts).
C3_Countdown == [](C3_CountInv) /\ [][C3_CountStep]_vars

\* A countdown of MaxCount lines has run out and removed its matcher.
C3_Witness ==
    \E r \in CountRules :
        /\ counts[r].seen /\ counts[r].clean
        /\ counts[r].n = MaxCount /\ counts[r].handled = MaxCount
        /\ ~InSeq(active_rules, r)
        /\ pc = "pass"

---------------------------------------------------------------------------
\* The builder of a kind, and the matchers that open and close it.
CurrentOf(k) == IF k = "enum" THEN enum_current ELSE struct_current
BeginRule(k) == IF k = "enum" THEN RULE_ENUM_BEGIN ELSE RULE_STRUCT_BEGIN
EndRule(k)   == IF k = "enum" THEN RULE_ENUM_END ELSE RULE_STRUCT_END
OpenShape(k) == IF k = "enum" THEN "enum_open" ELSE "struct_open"
Kinds == {"enum", "struct"}

\* The events of one rule among the firings of a line.
EventsOf(events, rule) == SelectSeq(events, LAMBDA e : e.rule = rule)

\* C4: the doc a builder gets at its open line is the pending doc: the text of
\* the most recent plain comment, cleared by a directive and cleared when an
\* open consumed it, so that a second open with no new plain comment gets "".
C4_DocConsumed ==
    [][\A k \in Kinds :
         CodeStep /\ Begun(fired', k) > 0 =>
             CurrentOf(k)'[1].doc = (IF consumed THEN "" ELSE last_comment)]_vars

\* C5: at most one builder of each kind is open (begun and not converted),
\* and it is the one EnumData.current / StructData.current holds; an open line
\* taken by its matcher while a builder of that kind is open aborts the run
\* with the assertion and leaves that builder as it was.
C5_OneOpen ==
    \A k \in Kinds :
        /\ opened[k] <= 1
        /\ opened[k] = 1 <=> CurrentOf(k) # None

C5_OpenStep ==
    \A k \in Kinds :
        CodeStep /\ line'.shape = OpenShape(k) /\ InSeq(active_rules, BeginRule(k)) =>
            /\ Begun(fired', k) <= 1
            /\ CurrentOf(k) # None =>
                  /\ pc' = "aborted" /\ error' = "AssertionError"
                  /\ CurrentOf(k)' = CurrentOf(k)
                  /\ Begun(fired', k) = 0

\* C5, both parts: the invariant and the open-line step.
C5_SingleBuilder == [](C5_OneOpen) /\ [][C5_OpenStep]_vars

\* An open line aborted the run because a builder of its kind was open.
C5_Witness ==
    \E k \in Kinds :
        /\ pc = "aborted" /\ error = "AssertionError"
        /\ line.kind = "code" /\ line.shape = OpenShape(k)
        /\ CurrentOf(k) # None /\ opened[k] = 1

\* A close line reaches its matcher of kind k while no builder of kind k is open.
OrphanClose(k) ==
    /\ CodeStep /\ line'.shape = "close"
    /\ InSeq(active_rules, EndRule(k))
    /\ CurrentOf(k) = None

NothingEmitted(events) ==
    \A i \in 1..Len(events) : events[i].gen = 0 /\ events[i].exp = 0

\* C6 as stated: a close line matched while no builder of that kind is open
\* aborts the run, for the enum and for the struct close matcher alike.
C6_Original ==
    [][\A k \in Kinds : OrphanClose(k) => pc' = "aborted"]_vars

\* C6 amended: an enum close line matched while no enum builder is open aborts
\* the run (AttributeError); a struct close line matched while no struct
\* builder is open is ignored and the pass goes on; in both cases the matcher
\* emits no definition and no export entry.
C6_OrphanClose ==
    [][/\ OrphanClose("enum") =>
             /\ pc' = "aborted" /\ error' = "AttributeError"
             /\ NothingEmitted(EventsOf(fired', RULE_ENUM_END))
       /\ OrphanClose("struct") =>
             /\ \A i \in 1..Len(fired') :
                    fired'[i].rule = RULE_STRUCT_END =>
                        /\ fired'[i].err = "none"
                        /\ fired'[i].gen = 0 /\ fired'[i].exp = 0
             /\ ~InSeq(active_rules, RULE_ENUM_END) =>
                    /\ EventsOf(fired', RULE_STRUCT_END) # <<>>
                    /\ pc' = "pass"
                    /\ generated_code' = generated_code
                    /\ exported_names' = exported_names]_vars

\* A struct close line was ignored: no builder was open and the pass goes on.
C6_Witness ==
    /\ pc = "pass" /\ line.kind = "code" /\ line.shape = "close"
    /\ EventsOf(fired, RULE_STRUCT_END) # <<>>
    /\ NothingEmitted(fired)
    /\ struct_current = None

\* C7: closing an enum with an empty name or with no member aborts the run
\* before anything of it is appended to the definitions or the export table.
\* The driver takes the name from the close line, where it is never empty; an
\* open builder has the empty name until then, and converting it as it is
\* (EnumData.end with the name not set) must abort with nothing appended.
C7_EmptyName ==
    enum_current # None /\ enum_current[1].name = <<>> =>
        LET r == EnumData_end(enum_current, generated_code, exported_names)
        IN  /\ r.err = "AssertionError"
            /\ r.lines = generated_code /\ r.export = exported_names
            /\ r.cur = enum_current

C7_NoMembers ==
    /\ CodeStep /\ line'.shape = "close"
    /\ InSeq(active_rules, RULE_ENUM_END)
    /\ enum_current # None /\ Len(enum_current[1].members) = 0
    => /\ pc' = "aborted" /\ error' = "AssertionError"
       /\ EventsOf(fired', RULE_ENUM_END) # <<>>
       /\ NothingEmitted(EventsOf(fired', RULE_ENUM_END))
       /\ \A i \in 1..Len(generated_code') : generated_code'[i][1] # "class_enum"
                \/ i <= Len(generated_code)
       /\ enum_current' # None

\* C7, both parts: the empty name and the enum with no member.
C7_EnumCloseAborts == [](C7_EmptyName) /\ [][C7_NoMembers]_vars

\* An enum with no member was closed and the run aborted.
C7_Witness ==
    /\ pc = "aborted" /\ error = "AssertionError"
    /\ line.kind = "code" /\ line.shape = "close"
    /\ enum_current # None /\ Len(enum_current[1].members) = 0
    /\ enum_current[1].name # <<>>

\* C8: closing a struct with no field aborts the run as the enum builder
\* does, and no record type and no export entry is emitted for it.
C8_EmptyStructAborts ==
    [][/\ CodeStep /\ line'.shape = "close"
       /\ InSeq(active_rules, RULE_STRUCT_END)
       /\ struct_current # None /\ Len(struct_current[1].fields) = 0
       /\ EventsOf(fired', RULE_STRUCT_END) # <<>>
       => /\ pc' = "aborted"
          /\ NothingEmitted(EventsOf(fired', RULE_STRUCT_END))]_vars

\* The section an output line belongs to; blank lines separate entries in
\* the definitions and in the wrappers and carry no section of their own.
Section(x) ==
    CASE x[1] = "loader" -> 0
      [] x[1] \in {"export_begin", "export", "export_end"} -> 1
      [] x[1] = "color" -> 3
      [] x[1] \in {"argtypes", "restype", "def", "call"} -> 4
      [] x[1] = "blank" -> -1
      [] OTHER -> 2

InSection(seq, k) == SelectSeq(seq, LAMBDA x : Section(x) = k)
IsPrefix(s, t) == Len(s) <= Len(t) /\ SubSeq(t, 1, Len(s)) = s

C9_Sections ==
    pc = "done" =>
        /\ SubSeq(output, 1, Len(LOADER_SRC)) = LOADER_SRC
        /\ \A i, j \in 1..Len(output) :
               i < j /\ Section(output[i]) >= 0 /\ Section(output[j]) >= 0
                   => Section(output[i]) <= Section(output[j])
        /\ LET table == InSection(output, 1)
           IN  /\ table[1] = <<"export_begin">>
               /\ table[Len(table)] = <<"export_end">>
               /\ \A i \in 2..(Len(table) - 1) : table[i][1] = "export"
        /\ InSection(output, 2) = InSection(generated_code, 2)
        /\ InSection(output, 3) = palette
        /\ InSection(output, 4) = InSection(funcion_wrappers, 4)

C9_HeaderOrder ==
    pc = "pass" /\ lineno' = lineno + 1 =>
        /\ IsPrefix(generated_code, generated_code')
        /\ IsPrefix(funcion_wrappers, funcion_wrappers')
        /\ IsPrefix(palette, palette')
        /\ IsPrefix(exported_names, exported_names')
        /\ output' = output

\* C9: after a complete pass the file holds, in this order, the loader
\* preamble, the export table closed by its terminator, the generated
\* definitions, the colour palette and the function wrappers, whatever the
\* order of the constructs in the header; every line of the pass only appends
\* to the definitions, the palette, the wrappers and the export table, so
\* inside each section the entries are in header order.
C9_ArtifactOrder == [](C9_Sections) /\ [][C9_HeaderOrder]_vars

\* A header with a function, then a colour, then a #define has been written.
C9_Witness ==
    /\ pc = "done"
    /\ dirs = <<"functions_begin", "color_defines_begin", "define_begin">>
    /\ InSection(output, 2) # <<>>
    /\ InSection(output, 3) # <<>>
    /\ InSection(output, 4) # <<>>

\* The names a member line hands to add_field, in the order it declares them.
AddedNames(l) ==
    IF l.names[1].arr > 0 THEN <<l.names[1].id>>
    ELSE [i \in 1..Len(l.names) |-> NameText(l.names[i])]

FieldNames(fields) == [i \in 1..Len(fields) |-> fields[i].name]

RECURSIVE Repeat(_, _)
Repeat(s, k) == IF k = 0 THEN <<>> ELSE s \o Repeat(s, k - 1)

\* The names of the field lines among the lines a step appended.
EmittedFields(old, new) ==
    LET added == SubSeq(new, Len(old) + 1, Len(new))
        rows  == SelectSeq(added, LAMBDA x : x[1] = "field")
    IN  [i \in 1..Len(rows) |-> rows[i][2]]

\* C10: the fields a struct emits at its close line are the names added
\* between its open and its close line, in the order of the header: a struct
\* starts with no field, each firing of the member matcher appends the names
\* of its line in their order, no other line changes the fields, and the close
\* line emits one field line per field, in that order.
C10_Step ==
    /\ CodeStep /\ Begun(fired', "struct") > 0 /\ struct_current' # None =>
           struct_current'[1].fields = <<>>
    /\ CodeStep /\ struct_current # None /\ struct_current' # None =>
           FieldNames(struct_current'[1].fields) =
               FieldNames(struct_current[1].fields)
                   \o (IF line'.shape = "field"
                       THEN Repeat(AddedNames(line'),
                                   Len(EventsOf(fired', RULE_STRUCT_MEMBER)))
                       ELSE <<>>)
    /\ pc = "pass" /\ lineno' = lineno + 1 /\ line'.kind # "code"
           => struct_current' = struct_current
    /\ CodeStep /\ line'.shape = "close" /\ struct_current # None
          /\ EventsOf(fired', RULE_STRUCT_END) # <<>> =>
           /\ EmittedFields(generated_code, generated_code')
                  = FieldNames(struct_current[1].fields)
           /\ struct_current' = None

\* C10 over every step of the pass.
C10_FieldOrder == [][C10_Step]_vars

\* A struct of three fields from two member lines has been emitted.
C10_Witness ==
    /\ pc = "pass" /\ line.kind = "code" /\ line.shape = "close"
    /\ \E i \in 1..Len(generated_code) :
           /\ i + 2 <= Len(generated_code)
           /\ generated_code[i] = <<"fields_open">>
           /\ generated_code[i + 1][1] = "field" /\ generated_code[i + 1][2] = <<"x">>
           /\ generated_code[i + 2][1] = "field" /\ generated_code[i + 2][2] = <<"y">>
           /\ generated_code[i + 3][1] = "field" /\ generated_code[i + 3][2] = <<"z">>

---------------------------------------------------------------------------
\* The lines a step appended to the definitions, and those of one tag.
Appended(old, new) == SubSeq(new, Len(old) + 1, Len(new))
Rows(lines, tag) == SelectSeq(lines, LAMBDA x : x[1] = tag)

\* A close line converts the open enum: its matcher fired and emitted.
EnumClosed ==
    /\ CodeStep /\ line'.shape = "close" /\ enum_current # None
    /\ \E i \in 1..Len(fired') :
           fired'[i].rule = RULE_ENUM_END /\ fired'[i].err = "none"

AllAuto(members) == \A i \in 1..Len(members) : members[i].v = AUTO

\* C11: an enum block of N members, none with an explicit value, is emitted
\* with N members whose values are 0, 1, ..., N-1 in declaration order.
C11_AutoFromZero ==
    [][EnumClosed /\ AllAuto(enum_current[1].members) =>
         LET rows == Rows(Appended(generated_code, generated_code'), "member")
         IN  /\ Len(rows) = Len(enum_current[1].members)
             /\ IntEnumValues(rows, 0) = [i \in 1..Len(rows) |-> i - 1]]_vars

\* The enum's members as the close line must emit them when the enum is
\* corrected: identifier prefix[0] + remainder, alias prefix_remainder.
CorrectedRows(e, name) ==
    [i \in 1..Len(e.members) |->
        <<"member", <<e.prefix[1]>> \o e.members[i].n, e.members[i].v>>]
CorrectedAliases(e, name) ==
    [i \in 1..Len(e.members) |->
        <<"enumalias", e.prefix \o <<"_">> \o e.members[i].n, name,
          <<e.prefix[1]>> \o e.members[i].n>>]

DigitLed(e) == \E i \in 1..Len(e.members) : isdigit(e.members[i].n[1])

\* C12: when some member of the open enum has a remainder that begins with a
\* digit, the close line emits every member, also those added before the
\* digit-led one, as prefix[0] + remainder, and for every member the alias
\* prefix + "_" + remainder bound to that member.
C12_CorrectedEnum ==
    [][/\ CodeStep /\ line'.shape = "close" /\ enum_current # None
       /\ EventsOf(fired', RULE_ENUM_END) # <<>>
       /\ DigitLed(enum_current[1])
       => LET e     == enum_current[1]
              added == Appended(generated_code, generated_code')
          IN  /\ pc' = "pass"
              /\ Rows(added, "member") = CorrectedRows(e, line'.name)
              /\ Rows(added, "enumalias") = CorrectedAliases(e, line'.name)]_vars

---------------------------------------------------------------------------
\* A function declaration was matched and wrapped.
FunctionStep ==
    /\ CodeStep /\ line'.shape = "function"
    /\ EventsOf(fired', RULE_FUNCTION) # <<>>

\* The pieces of the declaration's parameter list that are not "...".
Declared(l) == SelectSeq(l.params, LAMBDA q : q.kind # "varargs")
IsVariadic(l) == \E i \in 1..Len(l.params) : l.params[i].kind = "varargs"

\* The one row of a tag among the lines the step appended to the wrappers.
WrapperRow(tag) == Rows(Appended(funcion_wrappers, funcion_wrappers'), tag)[1]

\* C13: for every matched function declaration the native argument-type list
\* has exactly one entry per non-variadic parameter, in declaration order,
\* and none for "..."; the wrapper's signature ends with one catch-all
\* parameter exactly when the declaration contains "...".
C13_ArgTypes ==
    [][FunctionStep /\ Len(EventsOf(fired', RULE_FUNCTION)) = 1 =>
         LET decl   == Declared(line')
             ptypes == WrapperRow("argtypes")[3]
             params == WrapperRow("def")[3]
         IN  /\ Len(ptypes) = Len(decl)
             /\ \A i \in 1..Len(decl) :
                    decl[i].kind = "param" =>
                        ptypes[i] = typename(decl[i].unsigned, decl[i].type,
                                             decl[i].ptr, -1)
             /\ \A i \in 1..Len(params) :
                    params[i].args <=> (i = Len(params) /\ IsVariadic(line'))
             /\ IsVariadic(line') => params # <<>>]_vars

\* C14: the wrapper of a matched function declaration has as many parameters
\* as the declaration has ", "-separated pieces ("..." being the one
\* catch-all), and none when the parameter text is (void).
C14_ParamCount ==
    [][FunctionStep /\ Len(EventsOf(fired', RULE_FUNCTION)) = 1 =>
         Len(WrapperRow("def")[3]) =
             (IF line'.void THEN 0 ELSE Len(line'.params))]_vars

\* C15: a matched callback typedef  typedef Ret (*Name)(params);  emits the
\* function-pointer alias Name whose signature is the mapped Ret followed by
\* the mapped type of each parameter in order, and exports Name.
C15_CallbackSignature ==
    [][/\ CodeStep /\ line'.shape = "callback"
       /\ EventsOf(fired', RULE_CALLBACK_NOTATION) # <<>>
       => LET rows == Rows(Appended(generated_code, generated_code'), "cfunctype")
          IN  /\ rows # <<>>
              /\ rows[1][2] = line'.name
              /\ rows[1][3] = <<typename(FALSE, line'.rettype, 0, -1)>>
                                  \o cb_ptypes(line'.params)
              /\ Appended(exported_names, exported_names')[1]
                     = <<"export", line'.name>>]_vars

---------------------------------------------------------------------------
\* The palette entry of a colour line.
PaletteEntry(l) ==
    <<"color", l.name, l.rgba,
      IF l.comment = "   // c" THEN "   # c" ELSE "   # Light Gray">>

\* C16: each match of the colour matcher appends exactly one entry
\* NAME = Color(r, g, b, a) with the line's comment to the palette and
\* nothing to the export table, the definitions or the wrappers; on a line
\* that only the colour matcher takes, the export table and the definitions
\* stay as they were.
C16_Step ==
    CodeStep /\ line'.shape = "color" =>
        LET events == EventsOf(fired', RULE_COLOR_DEFINES)
        IN  /\ InSeq(active_rules, RULE_COLOR_DEFINES) => events # <<>>
            /\ \A i \in 1..Len(events) :
                   /\ events[i].err = "none" /\ events[i].pal = 1
                   /\ events[i].gen = 0 /\ events[i].exp = 0 /\ events[i].wrap = 0
            /\ palette' = palette \o Repeat(<<PaletteEntry(line')>>, Len(events))
            /\ Len(events) = Len(fired') =>
                   /\ exported_names' = exported_names
                   /\ generated_code' = generated_code
                   /\ funcion_wrappers' = funcion_wrappers

---------------------------------------------------------------------------
---------------------------------------------------------------------------
\* The parts of a typename result: the number of POINTER( ) around it, what
\* they wrap, and the primitive inside the array modifier, if any.
RECURSIVE Depth(_)
Depth(t) == IF t.k = "POINTER" THEN 1 + Depth(t.of) ELSE 0
RECURSIVE Pointee(_)
Pointee(t) == IF t.k = "POINTER" THEN Pointee(t.of) ELSE t
Primitive(t) == IF Pointee(t).k = "array" THEN Pointee(t).of ELSE Pointee(t)

\* The clauses of the Type Mapper for a call on a base kind of C_TYPES;
\* dedicated: the call is one of a char or void that takes the dedicated
\* pointer primitive, novalue: one that gives the no-value marker.
TypeMapper(c, dedicated, novalue) ==
    LET r == c.result
        rest == IF dedicated THEN c.ptr_level - 1 ELSE c.ptr_level
    IN  /\ c.unsigned /\ c.dtype = "char" =>
               Primitive(r) = Prim(TRUE, TRUE, "byte", FALSE)
        /\ dedicated => Primitive(r) = Prim(TRUE, FALSE, c.dtype, TRUE)
        /\ novalue => r = NoneType
        /\ ~novalue =>
               /\ Depth(r) = rest
               /\ Primitive(r).k = "prim"
               /\ Pointee(r) = IF c.array_len > 0
                                THEN [k |-> "array", of |-> Primitive(r),
                                      n |-> c.array_len]
                                ELSE Primitive(r)

\* C18 as stated, for every unsigned flag: unsigned char is the unsigned
\* byte; char (if not that) or void with depth > 0 is the dedicated pointer
\* primitive with the depth reduced by one; void with depth 0 and no array is
\* the no-value marker.
C18_Original ==
    call.fn = "typename" /\ call.dtype \in C_TYPES =>
        TypeMapper(call,
            /\ call.ptr_level > 0
            /\ \/ call.dtype = "void"
               \/ call.dtype = "char" /\ ~call.unsigned,
            call.dtype = "void" /\ call.ptr_level = 0 /\ call.array_len <= 0)

\* C18 amended: the clauses about char and void are those of a char or void
\* that is not unsigned; an unsigned base kind only takes the unsigned prefix
\* (unsigned char as unsigned byte) and is wrapped in as many POINTER( ) as
\* its depth.  The array modifier is applied before the remaining depth, and
\* there are exactly as many nested pointer wrappers as the remaining depth.
C18_TypeMapper ==
    call.fn = "typename" /\ call.dtype \in C_TYPES =>
        /\ TypeMapper(call,
               call.dtype \in {"char", "void"} /\ ~call.unsigned /\ call.ptr_level > 0,
               /\ call.dtype = "void" /\ ~call.unsigned
               /\ call.ptr_level = 0 /\ call.array_len <= 0)
        /\ call.unsigned /\ call.result # NoneType =>
               /\ Primitive(call.result).u /\ ~Primitive(call.result).p
               /\ Depth(call.result) = call.ptr_level

\* char ** with an array length: POINTER(c_char_p * MaxArrayLen).
C18_Witness ==
    /\ call.fn = "typename" /\ call.dtype = "char" /\ ~call.unsigned
    /\ call.ptr_level = 2 /\ call.array_len = MaxArrayLen
    /\ call.result = [k |-> "POINTER",
                      of |-> [k |-> "array", of |-> Prim(TRUE, FALSE, "char", TRUE),
                              n |-> MaxArrayLen]]

---------------------------------------------------------------------------
\* A separator goes before s[i]: upper case, not first, not after upper case.
Boundary(s, i) == isupper(s[i]) /\ i > 1 /\ ~isupper(s[i - 1])

RECURSIVE Folded(_, _)
Folded(s, i) ==
    IF i > Len(s) THEN <<>>
    ELSE (IF Boundary(s, i) THEN <<"_">> ELSE <<>>) \o <<lower(s[i])>>
             \o Folded(s, i + 1)

\* The indices of the result that hold the inserted separators.
Inserted(s) ==
    {i - 1 + Cardinality({j \in 1..i : Boundary(s, j)}) :
        i \in {k \in 1..Len(s) : Boundary(s, k)}}

RECURSIVE Without(_, _, _)
Without(r, drop, i) ==
    IF i > Len(r) THEN <<>>
    ELSE (IF i \in drop THEN <<>> ELSE <<r[i]>>) \o Without(r, drop, i + 1)

\* C19: to_snake_case puts a separator before an upper-case character
\* exactly when it is not the first and the character before it is not upper
\* case, and lowercases every character: the result has no upper-case
\* character, and without the inserted separators it is the lowercased input.
C19_FoldName ==
    call.fn = "to_snake_case" =>
        LET s == call.camel_case
            r == call.result
        IN  /\ r = Folded(s, 1)
            /\ \A i \in 1..Len(r) : ~isupper(r[i])
            /\ Without(r, Inserted(s), 1) = [i \in 1..Len(s) |-> lower(s[i])]
            /\ s = DrawRectangleRec => r = <<"d", "r", "a", "w", "_", "r", "e", "c", "t", "a", "n", "g", "l", "e", "_", "r", "e", "c">>
            /\ s = IsKeyDown => r = <<"i", "s", "_", "k", "e", "y", "_", "d", "o", "w", "n">>
            /\ s = RAYWHITE => r = <<"r", "a", "y", "w", "h", "i", "t", "e">>

\* DrawRectangleRec has been folded, with its two separators.
C19_Witness ==
    /\ call.fn = "to_snake_case" /\ call.camel_case = DrawRectangleRec
    /\ Len(call.result) = Len(DrawRectangleRec) + 2
    /\ Inserted(DrawRectangleRec) = {5, 15}

---------------------------------------------------------------------------
\* The begin and end directives of the contexts, and the matchers of each.
BeginCommands ==
    {"define_begin", "functions_begin", "struct_begin", "enum_begin",
     "color_defines_begin"}
EndCommands ==
    {"define_end", "functions_end", "struct_end", "enum_end", "color_defines_end"}
ContextRules(command) ==
    CASE command \in {"define_begin", "define_end"} -> <<RULE_DEFINE>>
      [] command \in {"functions_begin", "functions_end"} -> <<RULE_FUNCTION>>
      [] command \in {"struct_begin", "struct_end"} -> StructRules
      [] command \in {"enum_begin", "enum_end"} -> EnumRules
      [] OTHER -> <<RULE_COLOR_DEFINES>>

\* The context of the directive is active: its matchers are registered.
ContextActive(command) ==
    \E i \in 1..Len(ContextRules(command)) :
        InSeq(active_rules, ContextRules(command)[i])

\* A step that read the directive command.
DirectiveStep(command) ==
    /\ pc = "pass" /\ lineno' = lineno + 1
    /\ line'.kind = "directive" /\ line'.command = command

\* A begin directive of an active context, or an end directive of an
\* inactive one.
Redundant(command) ==
    \/ command \in BeginCommands /\ ContextActive(command)
    \/ command \in EndCommands /\ ~ContextActive(command)

\* C20 as stated: a begin directive for a context that is already active and
\* an end directive for a context that is not active are both processed
\* silently; neither aborts the pass.
C20_Original ==
    [][\A command \in BeginCommands \cup EndCommands :
          DirectiveStep(command) /\ Redundant(command) => pc' = "pass"]_vars

\* C20 amended: a begin directive for a context that is already active is
\* processed silently (its matchers are registered once more and the pass
\* goes on); an end directive for a context that is not active aborts the
\* pass with the ValueError of list.remove, the rule set and the emitted
\* lines left as they were.
C20_BeginSilentEndAborts ==
    [][\A command \in BeginCommands \cup EndCommands :
          DirectiveStep(command) /\ Redundant(command) =>
              /\ exported_names' = exported_names
              /\ generated_code' = generated_code
              /\ IF command \in BeginCommands
                 THEN /\ pc' = "pass"
                      /\ active_rules' = active_rules \o ContextRules(command)
                 ELSE /\ pc' = "aborted" /\ error' = "ValueError"
                      /\ active_rules' = active_rules]_vars

\* A begin directive was read twice in a row, and the pass then aborted on
\* an end directive.
C20_Witness ==
    /\ pc = "aborted" /\ error = "ValueError"
    /\ line.kind = "directive" /\ line.command \in EndCommands
    /\ \E i \in 1..(Len(dirs) - 1) :
           dirs[i] \in BeginCommands /\ dirs[i + 1] = dirs[i]

---------------------------------------------------------------------------
\* The commands of the if/elif chain.
Recognised ==
    BeginCommands \cup EndCommands \cup {"callback_notation", "define_name_alias"}

\* C21: a directive line whose command is none of the recognised commands
\* leaves the Active Rule Set, both countdown counters, the open builders,
\* the export table and every output section unchanged; it only clears the
\* pending doc, and the pass continues.
C21_UnrecognisedIgnored ==
    [][pc = "pass" /\ lineno' = lineno + 1 /\ line'.kind = "directive"
          /\ line'.command \notin Recognised =>
              /\ pc' = "pass" /\ error' = "none"
              /\ last_comment' = ""
              /\ UNCHANGED <<active_rules, callback_counter, define_alias_counter,
                             enum_current, struct_current, exported_names,
                             generated_code, palette, funcion_wrappers, output>>]_vars

\* An unrecognised directive has just been read while matchers were active,
\* an enum builder was open and definitions had been emitted.
C21_Witness ==
    /\ pc = "pass" /\ line.kind = "directive" /\ line.command \notin Recognised
    /\ active_rules # <<>> /\ enum_current # None /\ generated_code # <<>>
    /\ last_comment = ""

---------------------------------------------------------------------------
\* The part of a member name after its first underscore.
Remainder(name) == SubSeq(name, FindUnderscore(name, 1) + 1, Len(name))

\* C22: inside an enum block, with the bare-member matcher and the
\* member-with-value matcher both active, a member line with an explicit
\* integer value makes both fire and yields exactly one member, at its
\* declaration position (after the members declared before it), whose value
\* is the explicit literal of the line and not the auto value.
C22_ExplicitValue ==
    [][/\ CodeStep /\ line'.shape = "member_val" /\ enum_current # None
       /\ InSeq(active_rules, RULE_ENUM_MEMBER)
       /\ InSeq(active_rules, RULE_ENUM_MEMBER_VALUE)
       => /\ pc' = "pass"
          /\ EventsOf(fired', RULE_ENUM_MEMBER) # <<>>
          /\ EventsOf(fired', RULE_ENUM_MEMBER_VALUE) # <<>>
          /\ enum_current' # None
          /\ enum_current'[1].members =
                 Append(enum_current[1].members,
                        [n |-> Remainder(line'.name), v |-> line'.value])]_vars

---------------------------------------------------------------------------
\* The fields a member line declares: one per name, in order, each with the
\* type of the line, a name with the suffix [N] with array length N.
DeclaredFields(l) ==
    [i \in 1..Len(l.names) |->
        [name      |-> l.names[i].id,
         type      |-> l.type,
         unsigned  |-> l.unsigned,
         ptr_level |-> l.ptr,
         array_len |-> IF l.names[i].arr > 0 THEN l.names[i].arr ELSE -1]]

\* C23: a struct member line that declares k comma-joined names sharing one
\* type, read by the member matcher (registered once) while a struct is open,
\* adds exactly k fields to the open struct, one per name in order, each with
\* the line's type, also when names carry a [N] suffix, and a name with the
\* suffix gets array length N.
C23_FieldPerName ==
    [][/\ CodeStep /\ line'.shape = "field" /\ struct_current # None
       /\ Len(EventsOf(fired', RULE_STRUCT_MEMBER)) = 1
       => /\ struct_current' # None
          /\ struct_current'[1].fields =
                 struct_current[1].fields \o DeclaredFields(line')]_vars

---------------------------------------------------------------------------
\* The alias names the close line gives the members of the enum e.
AliasNames(e) ==
    [i \in 1..Len(e.members) |-> e.prefix \o <<"_">> \o e.members[i].n]

\* C24: for every member added to the open enum with raw name R, the alias
\* emitted for it and the export entry registered for it are exactly R, also
\* when the members do not share one prefix or two members share a
\* remainder.  A member line adds its raw name to the alias names the enum
\* will emit, after those of the members before it (a name that is among
\* them already is a member declared twice, which no header has), and the
\* close line emits one alias and one export entry per alias name.
C24_Step ==
    /\ /\ CodeStep /\ line'.shape \in {"member", "member_val"}
       /\ enum_current # None /\ pc' = "pass"
       /\ EventsOf(fired', RULE_ENUM_MEMBER) # <<>>
       /\ ~InSeq(AliasNames(enum_current[1]), line'.name)
       => AliasNames(enum_current'[1])
              = Append(AliasNames(enum_current[1]), line'.name)
    /\ EnumClosed =>
          LET e     == enum_current[1]
              rows  == Rows(Appended(generated_code, generated_code'), "enumalias")
          IN  /\ [i \in 1..Len(rows) |-> rows[i][2]] = AliasNames(e)
              /\ Appended(exported_names, exported_names')
                     = <<<<"export", line'.name>>>>
                           \o [i \in 1..Len(e.members) |-> <<"export", AliasNames(e)[i]>>]

C24_NativeNames == [][C24_Step]_vars

---------------------------------------------------------------------------
\* s without its last k elements; whether t is what s ends with.
Front(s, k) == SubSeq(s, 1, Len(s) - k)
IsSuffix(t, s) ==
    Len(t) <= Len(s) /\ SubSeq(s, Len(s) - Len(t) + 1, Len(s)) = t

\* The end directive of a context is read when the last directive of that
\* context was its begin and the matchers that begin registered are still
\* the last of the Active Rule Set: what precedes them is the rule set as it
\* was before the begin.
ClosesBegin(command) ==
    /\ command \in EndCommands /\ DirectiveStep(command)
    /\ LastIsBegin(ContextRules(command)[1])
    /\ IsSuffix(ContextRules(command), active_rules)

\* C25 as stated: a begin directive and later the matching end directive,
\* with no other directive of that context in between, restore the Active
\* Rule Set to what it was before the begin, the same matchers in the same
\* registration order, whatever other contexts are active.
C25_Original ==
    [][\A command \in EndCommands :
          ClosesBegin(command) =>
              /\ pc' = "pass"
              /\ active_rules' = Front(active_rules, Len(ContextRules(command)))]_vars

\* C25 amended: the pair restores the Active Rule Set, matchers and order,
\* when the context was not active before the begin, whatever other contexts
\* are active.  When it was active already, the end directive removes the
\* earliest registration of each of its matchers and not the one the begin
\* added: the same matchers, each as many times as before the begin, are
\* registered, but their order can differ.
C25_RestoresRules ==
    [][\A command \in EndCommands :
          ClosesBegin(command) =>
              LET before == Front(active_rules, Len(ContextRules(command)))
              IN  /\ pc' = "pass"
                  /\ Len(active_rules') = Len(before)
                  /\ \A i \in 1..Len(before) :
                         Occurrences(active_rules', before[i])
                             = Occurrences(before, before[i])
                  /\ (\A i \in 1..Len(before) :
                          ~InSeq(ContextRules(command), before[i]))
                        => active_rules' = before]_vars

\* An end directive has closed the begin read just before it while another
\* context was active, and that context's matchers are all that is left.
C25_Witness ==
    /\ pc = "pass" /\ line.kind = "directive" /\ line.command \in EndCommands
    /\ Len(dirs) >= 3
    /\ dirs[Len(dirs)] = line.command
    /\ dirs[Len(dirs) - 1] = BeginOf(ContextRules(line.command)[1])
    /\ active_rules # <<>> /\ ~ContextActive(line.command)

---------------------------------------------------------------------------
\* C26: every run of wrap_header starts, at its first line, with no enum
\* builder and no struct builder open, whatever happened in an earlier run of
\* the process: also when the earlier run aborted, or reached the end of the
\* header, while a builder was open.
C26_StartsClosed ==
    pc = "pass" /\ lineno = 0 => enum_current = None /\ struct_current = None

---------------------------------------------------------------------------
\* The contents of the output file before the first run.
Previous == << <<"previous">> >>

\* C27: the output is written only after the whole pass has completed: when
\* the pass aborts at any line no section has been written, and the contents
\* the output file had before the run are left unchanged.
C27_AbortKeepsOutput ==
    pc = "aborted" => output = Previous

====
